---- MODULE Spec2Model ----
(***************************************************************************)
(* A model of serde-scale: the SCALE serializer (src/src/ser.rs), the      *)
(* deserializer (src/src/de.rs) and the in-memory byte source and sink     *)
(* (src/src/read.rs, src/src/write.rs).                                    *)
(*                                                                         *)
(* Bytes are the numbers 0..255.  A u64 or u32 does not fit a TLC integer, *)
(* so an unsigned machine integer of width w is a bit vector, a function   *)
(* from 0..w-1 (bit 0 the least significant) to BOOLEAN, and <<, >>, & and *)
(* | are the bit operations of the source.  usize and u8 quantities that   *)
(* stay small (lengths, header bytes, indices) are plain numbers.          *)
(***************************************************************************)
EXTENDS Integers, Sequences, FiniteSets, TLC

VARIABLES
    op,      \* the operation performed last ("idle" before any)
    arg,     \* its input: the value serialized or the u64 written
    ty,      \* the type of the value serialized or asked for
    sink,    \* Serializer.0, the bytes in the writer
    input,   \* the slice the Deserializer was built on
    rest,    \* Deserializer.0, the part of the slice not yet read
    ret      \* what the operation returned

vars == <<op, arg, ty, sink, input, rest, ret>>

(***************************************************************************)
(* Bounds of the model.                                                    *)
(***************************************************************************)
\* Mantissas m of the sampled u64 values m * 2^s + (2^t - 1).
MaxMant == 3
\* Payload bytes that follow the header byte of a raw compact input.
MaxPayload == 9
\* Elements of a sampled sequence, entries of a sampled map.
MaxLen == 2
\* Variants of the largest sampled enum: indices on both sides of 255.
NumVariants == 260
\* Bytes of a raw slice handed to from_slice or read_map.
MaxRaw == 3

(***************************************************************************)
(* Machine integers.                                                       *)
(***************************************************************************)
U64Bits == 64
U32Bits == 32
ByteBits == 8

\* The w-bit integer with value n, for 0 <= n < 2^31.
FromNat(n, w) ==
    [i \in 0..(w - 1) |-> IF i <= 30 THEN (n \div (2^i)) % 2 = 1 ELSE FALSE]

RECURSIVE ToNatFrom(_, _)
ToNatFrom(b, i) ==
    IF i \notin DOMAIN b THEN 0
    ELSE (IF b[i] THEN 2^i ELSE 0) + ToNatFrom(b, i + 1)

\* The value of a bit vector whose bits above bit 30 are clear (a TLC
\* integer is below 2^31).
ToNat(b) == ToNatFrom(b, 0)

\* x << k and x >> k on a fixed-width unsigned integer.
Shl(b, k) == [i \in DOMAIN b |-> IF i - k \in DOMAIN b THEN b[i - k] ELSE FALSE]
Shr(b, k) == [i \in DOMAIN b |-> IF i + k \in DOMAIN b THEN b[i + k] ELSE FALSE]
BitAnd(a, b) == [i \in DOMAIN a |-> a[i] /\ b[i]]
BitOr(a, b) == [i \in DOMAIN a |-> a[i] \/ b[i]]

\* a < b, unsigned.
Lt(a, b) ==
    \E i \in DOMAIN a :
        /\ ~a[i]
        /\ b[i]
        /\ \A j \in DOMAIN a : j > i => a[j] = b[j]

\* `x as u8`: the low eight bits, as a byte.
AsU8(b) == ToNat([i \in 0..(ByteBits - 1) |-> b[i]])

\* `x as u64` of a narrower unsigned integer: zero extension.
AsU64(b) == [i \in 0..(U64Bits - 1) |-> IF i \in DOMAIN b THEN b[i] ELSE FALSE]

\* uN::to_le_bytes: byte k holds bits 8k .. 8k+7.
ToLeBytes(b) ==
    [k \in 1..(Cardinality(DOMAIN b) \div ByteBits) |->
        ToNat([j \in 0..(ByteBits - 1) |-> b[ByteBits * (k - 1) + j]])]

\* uN::from_le_bytes on an array of w/8 bytes.
FromLeBytes(bytes, w) ==
    [i \in 0..(w - 1) |->
        (bytes[(i \div ByteBits) + 1] \div (2^(i % ByteBits))) % 2 = 1]

U64(n) == FromNat(n, U64Bits)

(***************************************************************************)
(* The byte sink (write.rs) and the byte source (read.rs).                 *)
(***************************************************************************)
\* <Vec<u8> as Write>::write: extend, never fails.
Write(out, data) == out \o data

\* read_map refusing a read of all the bytes left: n >= self.len().
read_map_ge(src, n) ==
    IF n >= Len(src)
    THEN [ok |-> FALSE, bytes |-> <<>>, rest |-> src]
    ELSE [ok |-> TRUE, tag |-> "Persistent", bytes |-> SubSeq(src, 1, n),
          rest |-> SubSeq(src, n + 1, Len(src))]

\* <&[u8] as Read>::read_map: EndOfInput and an untouched slice when fewer
\* than n bytes are left, otherwise the first n bytes (a Persistent borrow)
\* and the slice advanced by n.
read_map(src, n) ==
    IF n > Len(src)
    THEN [ok |-> FALSE, bytes |-> <<>>, rest |-> src]
    ELSE [ok |-> TRUE, tag |-> "Persistent", bytes |-> SubSeq(src, 1, n),
          rest |-> SubSeq(src, n + 1, Len(src))]

\* Read::read_exact: read_map(buf.len(), copy).
read_exact(src, n) == read_map(src, n)

\* The readers a Deserializer<R> is built on: the slice, whose read_map
\* hands out Bytes::Persistent, and an implementation of Read over the same
\* bytes that can only hand out Bytes::Temporary.
Readers == {"slice", "temporary"}

\* R::read_map for a reader of either kind.
reader_read_map(reader, src, n) ==
    LET r == read_map(src, n) IN
    IF reader = "slice" \/ ~r.ok THEN r
    ELSE [ok |-> TRUE, tag |-> "Temporary", bytes |-> r.bytes, rest |-> r.rest]

(***************************************************************************)
(* Results.                                                                *)
(***************************************************************************)
Ok(v) == [ok |-> TRUE, val |-> v]
Err(e) == [ok |-> FALSE, err |-> e]
\* Error<E> values are records: the variant `e` and its fields.
\* Error::Io(EndOfInput), by `?` through From<E> for Error<E>.
IoEndOfInput == [e |-> "Io", io |-> "EndOfInput"]
CollectionTooLargeToDeserialize == [e |-> "CollectionTooLargeToDeserialize"]

(***************************************************************************)
(* Serializer::serialize_compact.                                          *)
(***************************************************************************)
\* The closure of core::iter::from_fn zipped with bytes[1..9]: the low byte
\* of v, then v >>= 8, until v is 0 or the `slots` destinations are used up.
RECURSIVE compact_big_payload(_, _)
compact_big_payload(v, slots) ==
    IF slots = 0 \/ v = U64(0) THEN <<>>
    ELSE <<AsU8(BitAnd(v, U64(255)))>> \o compact_big_payload(Shr(v, 8), slots - 1)

\* bytes[0] = (end - 4 << 2 & 0x3) as u8.  In Rust - binds tighter than <<,
\* and << tighter than &: ((end - 4) << 2) & 0x3.
compact_big_head(end) == (((end - 4) * 4) % 4) % 256

\* serialize_compact with the first regime test written `v <= 0x40`.
serialize_compact_bytes_le(v) ==
    IF Lt(v, U64(65)) THEN
        <<AsU8(BitAnd(Shl(v, 2), U64(255)))>>
    ELSE IF Lt(v, U64(16384)) THEN
        << AsU8(BitAnd(BitOr(Shl(v, 2), U64(1)), U64(255))),
           AsU8(BitAnd(Shr(v, 6), U64(255))) >>
    ELSE IF Lt(v, U64(2^30)) THEN
        LET high == Shr(v, 6) IN
        << AsU8(BitAnd(BitOr(Shl(v, 2), U64(2)), U64(255))),
           AsU8(BitAnd(high, U64(255))),
           AsU8(BitAnd(Shr(high, 8), U64(255))),
           AsU8(BitAnd(Shr(high, 16), U64(255))) >>
    ELSE
        LET payload == compact_big_payload(v, 8)
            end == Len(payload)
        IN  <<compact_big_head(end)>> \o payload

\* The bytes serialize_compact(v) hands to one write call.
serialize_compact_bytes(v) ==
    IF Lt(v, U64(64)) THEN
        <<AsU8(BitAnd(Shl(v, 2), U64(255)))>>
    ELSE IF Lt(v, U64(16384)) THEN
        << AsU8(BitAnd(BitOr(Shl(v, 2), U64(1)), U64(255))),
           AsU8(BitAnd(Shr(v, 6), U64(255))) >>
    ELSE IF Lt(v, U64(2^30)) THEN
        LET high == Shr(v, 6) IN
        << AsU8(BitAnd(BitOr(Shl(v, 2), U64(2)), U64(255))),
           AsU8(BitAnd(high, U64(255))),
           AsU8(BitAnd(Shr(high, 8), U64(255))),
           AsU8(BitAnd(Shr(high, 16), U64(255))) >>
    ELSE
        LET payload == compact_big_payload(v, 8)
            end == Len(payload)
        IN  <<compact_big_head(end)>> \o payload

serialize_compact(out, v) == Write(out, serialize_compact_bytes(v))

(***************************************************************************)
(* Deserializer::read_compact, read_u8, read_u32.                          *)
(***************************************************************************)
\* A decoding step returns [ok, val | err, rest]: the result and the slice
\* left in the Deserializer.
Got(v, r) == [ok |-> TRUE, val |-> v, rest |-> r]
Failed(e, r) == [ok |-> FALSE, err |-> e, rest |-> r]

read_u8(src) ==
    LET r == read_exact(src, 1) IN
    IF r.ok THEN Got(r.bytes[1], r.rest) ELSE Failed(IoEndOfInput, r.rest)

read_u32(src) ==
    LET r == read_exact(src, 4) IN
    IF r.ok THEN Got(FromLeBytes(r.bytes, U32Bits), r.rest)
    ELSE Failed(IoEndOfInput, r.rest)

\* buf[..n] filled from the source, the other bytes of the array 0.
ZeroPadded(bytes, size) == [i \in 1..size |-> IF i <= Len(bytes) THEN bytes[i] ELSE 0]

\* read_compact with the two-byte form's high byte shifted by 8 instead of 6.
read_compact_shift8(src) ==
    LET h == read_exact(src, 1) IN
    IF ~h.ok THEN Failed(IoEndOfInput, h.rest)
    ELSE
    LET head == h.bytes[1]
        low == U64(head \div 4)
    IN
    CASE head % 4 = 0 -> Got(low, h.rest)
      [] head % 4 = 1 ->
            LET hi == read_u8(h.rest) IN
            IF ~hi.ok THEN hi
            ELSE Got(BitOr(low, Shl(U64(hi.val), 8)), hi.rest)
      [] head % 4 = 2 ->
            LET r == read_exact(h.rest, 3) IN
            IF ~r.ok THEN Failed(IoEndOfInput, r.rest)
            ELSE LET high == AsU64(FromLeBytes(ZeroPadded(r.bytes, 4), U32Bits))
                 IN  Got(BitOr(low, Shl(high, 6)), r.rest)
      [] head % 4 = 3 ->
            LET len == (head \div 4) + 4 IN
            IF len > 8 THEN Failed(CollectionTooLargeToDeserialize, h.rest)
            ELSE LET r == read_exact(h.rest, len) IN
                 IF ~r.ok THEN Failed(IoEndOfInput, r.rest)
                 ELSE Got(FromLeBytes(ZeroPadded(r.bytes, 8), U64Bits), r.rest)

\* read_compact with the length test made after the payload is read.
read_compact_late_check(src) ==
    LET h == read_exact(src, 1) IN
    IF ~h.ok THEN Failed(IoEndOfInput, h.rest)
    ELSE
    LET head == h.bytes[1]
        low == U64(head \div 4)
    IN
    CASE head % 4 = 0 -> Got(low, h.rest)
      [] head % 4 = 1 ->
            LET hi == read_u8(h.rest) IN
            IF ~hi.ok THEN hi
            ELSE Got(BitOr(low, Shl(U64(hi.val), 6)), hi.rest)
      [] head % 4 = 2 ->
            LET r == read_exact(h.rest, 3) IN
            IF ~r.ok THEN Failed(IoEndOfInput, r.rest)
            ELSE LET high == AsU64(FromLeBytes(ZeroPadded(r.bytes, 4), U32Bits))
                 IN  Got(BitOr(low, Shl(high, 6)), r.rest)
      [] head % 4 = 3 ->
            LET len == (head \div 4) + 4
                r == read_exact(h.rest, len)
            IN  IF ~r.ok THEN Failed(IoEndOfInput, r.rest)
                ELSE IF len > 8 THEN Failed(CollectionTooLargeToDeserialize, r.rest)
                ELSE Got(FromLeBytes(ZeroPadded(r.bytes, 8), U64Bits), r.rest)

read_compact(src) ==
    LET h == read_exact(src, 1) IN
    IF ~h.ok THEN Failed(IoEndOfInput, h.rest)
    ELSE
    LET head == h.bytes[1]
        low == U64(head \div 4)
    IN
    CASE head % 4 = 0 -> Got(low, h.rest)
      [] head % 4 = 1 ->
            LET hi == read_u8(h.rest) IN
            IF ~hi.ok THEN hi
            ELSE Got(BitOr(low, Shl(U64(hi.val), 6)), hi.rest)
      [] head % 4 = 2 ->
            LET r == read_exact(h.rest, 3) IN
            IF ~r.ok THEN Failed(IoEndOfInput, r.rest)
            ELSE LET high == AsU64(FromLeBytes(ZeroPadded(r.bytes, 4), U32Bits))
                 IN  Got(BitOr(low, Shl(high, 6)), r.rest)
      [] head % 4 = 3 ->
            LET len == (head \div 4) + 4 IN
            IF len > 8 THEN Failed(CollectionTooLargeToDeserialize, h.rest)
            ELSE LET r == read_exact(h.rest, len) IN
                 IF ~r.ok THEN Failed(IoEndOfInput, r.rest)
                 ELSE Got(FromLeBytes(ZeroPadded(r.bytes, 8), U64Bits), r.rest)

(***************************************************************************)
(* Values.  A value is a record whose field k names what its Serialize     *)
(* impl asks of the serializer:                                            *)
(*   [k |-> "bool", v |-> b]                                               *)
(*   [k |-> "i8" | .. | "u64", v |-> bits]   (two's complement)            *)
(*   [k |-> "f32" | "f64"]                                                 *)
(*   [k |-> "char", v |-> code point]                                      *)
(*   [k |-> "str" | "bytes", v |-> bytes]                                  *)
(*   [k |-> "unit"]  [k |-> "none"]  [k |-> "some", v |-> x]               *)
(*   [k |-> "newtype_struct", v |-> x]                                     *)
(*   [k |-> "seq", elems |-> <<x..>>]                                      *)
(*   [k |-> "tuple" | "tuple_struct" | "struct", elems |-> <<x..>>]        *)
(*   [k |-> "map", entries |-> << <<key, value>>.. >>]                     *)
(*   [k |-> "variant", name |-> enum, variant |-> name, index |-> i,       *)
(*    shape |-> "unit" | "newtype" | "tuple" | "struct", elems |-> <<x..>>] *)
(***************************************************************************)
IntKinds == {"i8", "i16", "i32", "i64", "u8", "u16", "u32", "u64"}

Width(k) ==
    CASE k \in {"i8", "u8"} -> 8
      [] k \in {"i16", "u16"} -> 16
      [] k \in {"i32", "u32"} -> 32
      [] k \in {"i64", "u64"} -> 64

Bool(b) == [k |-> "bool", v |-> b]
IntOf(k, bits) == [k |-> k, v |-> bits]
Float(k, bits) == [k |-> k, v |-> bits]
Char(c) == [k |-> "char", v |-> c]
Str(b) == [k |-> "str", v |-> b]
Bytes(b) == [k |-> "bytes", v |-> b]
Unit == [k |-> "unit"]
None == [k |-> "none"]
Some(x) == [k |-> "some", v |-> x]
NewtypeStruct(x) == [k |-> "newtype_struct", v |-> x]
SeqOf(xs) == [k |-> "seq", elems |-> xs]
TupleOf(xs) == [k |-> "tuple", elems |-> xs]
StructOf(xs) == [k |-> "struct", elems |-> xs]
MapOf(es) == [k |-> "map", entries |-> es]
Variant(name, variant, i, shape, xs) ==
    [k |-> "variant", name |-> name, variant |-> variant, index |-> i,
     shape |-> shape, elems |-> xs]

(***************************************************************************)
(* The Serializer (ser.rs).  Every method takes the writer and returns     *)
(* [ok, err, out]: the Result and the writer afterwards.                   *)
(***************************************************************************)
Done(out) == [ok |-> TRUE, out |-> out]
Fail(e, out) == [ok |-> FALSE, err |-> e, out |-> out]

\* The largest u8, for u8::try_from.
U8Max == 255

\* serialize_i8 .. serialize_u64 writing v.to_be_bytes().
serialize_int_be(out, bits) ==
    LET le == ToLeBytes(bits) IN
    Done(Write(out, [k \in 1..Len(le) |-> le[Len(le) + 1 - k]]))

\* serialize_i8 .. serialize_u64: write v.to_le_bytes().
serialize_int(out, bits) == Done(Write(out, ToLeBytes(bits)))

serialize_u8(out, n) == serialize_int(out, FromNat(n, ByteBits))

\* serialize_bool: serialize_u8(v as u8).
serialize_bool(out, b) == serialize_u8(out, IF b THEN 1 ELSE 0)

\* serialize_f32, serialize_f64.
serialize_float(out) == Fail([e |-> "FloatingPointUnsupported"], out)

\* serialize_char: serialize_u32(v as u32).
serialize_char(out, c) == serialize_int(out, FromNat(c, U32Bits))

\* serialize_bytes with the length as a u32 instead of a compact integer.
serialize_bytes_u32_len(out, b) ==
    Done(Write(Write(out, ToLeBytes(FromNat(Len(b), U32Bits))), b))

\* serialize_bytes, and serialize_str through it: the compact length, then
\* the bytes.  (usize is taken to be 64 bits wide: u64::try_from succeeds.)
serialize_bytes(out, b) == Done(Write(serialize_compact(out, U64(Len(b))), b))

serialize_none(out) == serialize_u8(out, 0)

\* The probe with the two discriminants exchanged.
OptionalBoolSerializer_swapped(x) ==
    IF x.k = "bool" THEN [ok |-> TRUE, val |-> IF x.v THEN 2 ELSE 1]
    ELSE [ok |-> FALSE, err |-> [e |-> "VoidError"]]

\* x.serialize(OptionalBoolSerializer): Ok(1) or Ok(2) from serialize_bool,
\* Err(VoidError) from every other method.
OptionalBoolSerializer(x) ==
    IF x.k = "bool" THEN [ok |-> TRUE, val |-> IF x.v THEN 1 ELSE 2]
    ELSE [ok |-> FALSE, err |-> [e |-> "VoidError"]]

\* serialize_unit_variant with the index cast: variant_index as u8.
serialize_unit_variant_truncating(out, name, variant_index, variant) ==
    serialize_u8(out, variant_index % (U8Max + 1))

\* serialize_unit_variant: the index as a u8, or TooManyVariants.
serialize_unit_variant(out, name, variant_index, variant) ==
    IF variant_index > U8Max
    THEN Fail([e |-> "TooManyVariants", enum_name |-> name,
               variant_name |-> variant, variant_index |-> variant_index], out)
    ELSE serialize_u8(out, variant_index)

\* Option<usize>: <<>> is None and <<n>> is Some(n).
SomeLen(n) == <<n>>
NoLen == <<>>

\* serialize_seq and serialize_map: the compact length, or LengthNeeded.
serialize_seq(out, len) ==
    IF len = NoLen THEN Fail([e |-> "LengthNeeded"], out)
    ELSE Done(serialize_compact(out, U64(len[1])))

serialize_map(out, len) ==
    IF len = NoLen THEN Fail([e |-> "LengthNeeded"], out)
    ELSE Done(serialize_compact(out, U64(len[1])))

RECURSIVE Serialize(_, _)
RECURSIVE SerializeElements(_, _)
RECURSIVE SerializeEntries(_, _)

\* serialize_some: the probe's byte, or 1 and the value.
serialize_some(out, x) ==
    LET probe == OptionalBoolSerializer(x) IN
    IF probe.ok THEN serialize_u8(out, probe.val)
    ELSE LET d == serialize_u8(out, 1) IN
         IF ~d.ok THEN d ELSE Serialize(x, d.out)

\* serialize_newtype_variant with its two statements exchanged.
serialize_newtype_variant_value_first(out, name, variant_index, variant, x) ==
    LET v == Serialize(x, out) IN
    IF ~v.ok THEN v ELSE serialize_unit_variant(v.out, name, variant_index, variant)

\* serialize_newtype_variant: serialize_unit_variant, then the value.
serialize_newtype_variant(out, name, variant_index, variant, x) ==
    LET d == serialize_unit_variant(out, name, variant_index, variant) IN
    IF ~d.ok THEN d ELSE Serialize(x, d.out)

\* Compound's serialize_element / serialize_field (SerializeSeq,
\* SerializeTuple, SerializeTupleStruct, SerializeTupleVariant,
\* SerializeStruct, SerializeStructVariant), called on each element in
\* turn until one fails; end() writes nothing.
SerializeElements(xs, out) ==
    IF xs = <<>> THEN Done(out)
    ELSE LET r == Serialize(Head(xs), out) IN
         IF ~r.ok THEN r ELSE SerializeElements(Tail(xs), r.out)

\* SerializeMap for Compound: serialize_key writes serialize_compact(2) and
\* then the key.
serialize_key(out, key) == Serialize(key, serialize_compact(out, U64(2)))

serialize_value(out, value) == Serialize(value, out)

\* SerializeMap::serialize_entry on each entry in turn: serialize_key, then
\* serialize_value.
SerializeEntries(es, out) ==
    IF es = <<>> THEN Done(out)
    ELSE LET key == serialize_key(out, Head(es)[1]) IN
         IF ~key.ok THEN key
         ELSE LET value == serialize_value(key.out, Head(es)[2]) IN
              IF ~value.ok THEN value
              ELSE SerializeEntries(Tail(es), value.out)

\* x.serialize(&mut serializer): the method of the Serializer that the
\* value's Serialize impl calls, and the calls it makes on the Compound.
Serialize(x, out) ==
    CASE x.k = "bool" -> serialize_bool(out, x.v)
      [] x.k \in IntKinds -> serialize_int(out, x.v)
      [] x.k \in {"f32", "f64"} -> serialize_float(out)
      [] x.k = "char" -> serialize_char(out, x.v)
      [] x.k \in {"str", "bytes"} -> serialize_bytes(out, x.v)
      [] x.k = "none" -> serialize_none(out)
      [] x.k = "some" -> serialize_some(out, x.v)
      [] x.k = "unit" -> Done(out)
      [] x.k = "newtype_struct" -> Serialize(x.v, out)
      [] x.k = "seq" ->
            LET c == serialize_seq(out, SomeLen(Len(x.elems))) IN
            IF ~c.ok THEN c ELSE SerializeElements(x.elems, c.out)
      [] x.k \in {"tuple", "tuple_struct", "struct"} ->
            SerializeElements(x.elems, out)
      [] x.k = "map" ->
            LET c == serialize_map(out, SomeLen(Len(x.entries))) IN
            IF ~c.ok THEN c ELSE SerializeEntries(x.entries, c.out)
      [] x.k = "variant" /\ x.shape = "unit" ->
            serialize_unit_variant(out, x.name, x.index, x.variant)
      [] x.k = "variant" /\ x.shape = "newtype" ->
            serialize_newtype_variant(out, x.name, x.index, x.variant, x.elems[1])
      [] x.k = "variant" /\ x.shape \in {"tuple", "struct"} ->
            LET c == serialize_unit_variant(out, x.name, x.index, x.variant) IN
            IF ~c.ok THEN c ELSE SerializeElements(x.elems, c.out)

\* Serializer::collect_seq, serde's default: serialize_seq(len), then
\* serialize_element on each item and end().
collect_seq(out, len, xs) ==
    LET c == serialize_seq(out, len) IN
    IF ~c.ok THEN c ELSE SerializeElements(xs, c.out)

\* Serializer::collect_map, serde's default: serialize_map(len), then
\* serialize_entry on each pair and end().
collect_map(out, len, es) ==
    LET c == serialize_map(out, len) IN
    IF ~c.ok THEN c ELSE SerializeEntries(es, c.out)

\* to_vec: a new Vec, the value serialized into it, the Vec returned.
to_vec(x) ==
    LET r == Serialize(x, <<>>) IN
    IF r.ok THEN Ok(r.out) ELSE Err(r.err)

(***************************************************************************)
(* Types.  Decoding is directed by the type asked for:                     *)
(*   [k |-> "bool" | "i8" | .. | "u64" | "f32" | "f64" | "char" | "str" |  *)
(*          "bytes" | "unit"]                                              *)
(*   [k |-> "option" | "newtype_struct" | "seq", of |-> T]                 *)
(*   [k |-> "tuple" | "tuple_struct" | "struct", items |-> <<T..>>]        *)
(*   [k |-> "map", key |-> K, val |-> V]                                   *)
(*   [k |-> "enum", name |-> enum,                                         *)
(*    variants |-> << [variant |-> name, shape |-> s, items |-> <<T..>>].. >>] *)
(***************************************************************************)
TBool == [k |-> "bool"]
TInt(k) == [k |-> k]
TFloat(k) == [k |-> k]
TChar == [k |-> "char"]
TStr == [k |-> "str"]
TBytes == [k |-> "bytes"]
TUnit == [k |-> "unit"]
TOption(t) == [k |-> "option", of |-> t]
TNewtypeStruct(t) == [k |-> "newtype_struct", of |-> t]
TSeq(t) == [k |-> "seq", of |-> t]
TTuple(ts) == [k |-> "tuple", items |-> ts]
TStruct(ts) == [k |-> "struct", items |-> ts]
TMap(kt, vt) == [k |-> "map", key |-> kt, val |-> vt]
TEnum(name, vs) == [k |-> "enum", name |-> name, variants |-> vs]
VariantShape(variant, s, ts) == [variant |-> variant, shape |-> s, items |-> ts]

(***************************************************************************)
(* The Deserializer (de.rs).  Every method takes the slice left in the     *)
(* reader and returns Got(value, rest) or Failed(error, rest).             *)
(***************************************************************************)
\* core::str::from_utf8: whether the bytes from index i on are well-formed
\* UTF-8 (no overlong form, no surrogate, nothing above U+10FFFF).
RECURSIVE Utf8From(_, _)
Utf8From(b, i) ==
    LET n == Len(b)
        cont(j, lo, hi) == j <= n /\ lo <= b[j] /\ b[j] <= hi
    IN
    IF i > n THEN TRUE
    ELSE CASE b[i] < 128 -> Utf8From(b, i + 1)
           [] 194 <= b[i] /\ b[i] <= 223 ->
                 cont(i + 1, 128, 191) /\ Utf8From(b, i + 2)
           [] 224 <= b[i] /\ b[i] <= 239 ->
                 /\ cont(i + 1, IF b[i] = 224 THEN 160 ELSE 128,
                                IF b[i] = 237 THEN 159 ELSE 191)
                 /\ cont(i + 2, 128, 191)
                 /\ Utf8From(b, i + 3)
           [] 240 <= b[i] /\ b[i] <= 244 ->
                 /\ cont(i + 1, IF b[i] = 240 THEN 144 ELSE 128,
                                IF b[i] = 244 THEN 143 ELSE 191)
                 /\ cont(i + 2, 128, 191)
                 /\ cont(i + 3, 128, 191)
                 /\ Utf8From(b, i + 4)
           [] OTHER -> FALSE

from_utf8(b) == Utf8From(b, 1)

\* Utf8Error::valid_up_to: the length of the longest prefix that from_utf8
\* accepts.
valid_up_to(b) ==
    CHOOSE n \in 0..Len(b) :
        /\ from_utf8(SubSeq(b, 1, n))
        /\ \A m \in (n + 1)..Len(b) : ~from_utf8(SubSeq(b, 1, m))

\* from_u32 without the surrogate gap.
from_u32_lax(found) == Lt(found, FromNat(1114112, U32Bits))

\* core::char::from_u32: Some unless a surrogate or above 0x10FFFF.
from_u32(found) ==
    \/ Lt(found, FromNat(55296, U32Bits))
    \/ /\ ~Lt(found, FromNat(57344, U32Bits))
       /\ Lt(found, FromNat(1114112, U32Bits))

\* A length no slice in the model reaches: what usize::try_from gives for
\* a u64 that is no TLC integer.  (usize is taken to be 64 bits wide, so
\* the conversion itself never fails.)
HugeLen == (2^30 - 1) + 2^30

AsUsize(n) ==
    IF \E i \in DOMAIN n : i > 30 /\ n[i] THEN HugeLen ELSE ToNat(n)

\* deserialize_bool taking every byte other than 0 for true.
deserialize_bool_nonzero(src) ==
    LET b == read_u8(src) IN
    IF ~b.ok THEN b ELSE Got(Bool(b.val # 0), b.rest)

\* deserialize_bool: one byte, 0 or 1, or ExpectedBoolean.
deserialize_bool(src) ==
    LET b == read_u8(src) IN
    IF ~b.ok THEN b
    ELSE CASE b.val = 0 -> Got(Bool(FALSE), b.rest)
           [] b.val = 1 -> Got(Bool(TRUE), b.rest)
           [] OTHER -> Failed([e |-> "ExpectedBoolean", found |-> b.val], b.rest)

\* deserialize_i8 .. deserialize_u64: read_exact on an array of the width,
\* then from_le_bytes.
deserialize_int(k, src) ==
    LET r == read_exact(src, Width(k) \div ByteBits) IN
    IF ~r.ok THEN Failed(IoEndOfInput, r.rest)
    ELSE Got(IntOf(k, FromLeBytes(r.bytes, Width(k))), r.rest)

\* deserialize_f32 reading the four bytes before it refuses them.
deserialize_float_reading(src) ==
    Failed([e |-> "FloatingPointUnsupported"], read_map(src, 4).rest)

\* deserialize_f32, deserialize_f64.
deserialize_float(src) == Failed([e |-> "FloatingPointUnsupported"], src)

deserialize_char(src) ==
    LET found == read_u32(src) IN
    IF ~found.ok THEN found
    ELSE IF from_u32(found.val) THEN Got(Char(ToNat(found.val)), found.rest)
    ELSE Failed([e |-> "InvalidCharacter", found |-> found.val], found.rest)

\* deserialize_str validating the bytes before it takes them from the
\* slice.
deserialize_str_peek(src) ==
    LET n == read_compact(src) IN
    IF ~n.ok THEN n
    ELSE LET r == read_map(n.rest, AsUsize(n.val)) IN
         IF ~r.ok THEN Failed(IoEndOfInput, r.rest)
         ELSE IF from_utf8(r.bytes) THEN Got(Str(r.bytes), r.rest)
         ELSE Failed([e |-> "InvalidUnicode", valid_up_to |-> valid_up_to(r.bytes)],
                     n.rest)

\* deserialize_str over a reader, always on the copying path.
deserialize_str_from_copying(reader, src) ==
    LET n == read_compact(src) IN
    IF ~n.ok THEN n
    ELSE LET r == reader_read_map(reader, n.rest, AsUsize(n.val)) IN
         IF ~r.ok THEN Failed(IoEndOfInput, r.rest)
         ELSE IF ~from_utf8(r.bytes)
         THEN Failed([e |-> "InvalidUnicode", valid_up_to |-> valid_up_to(r.bytes)],
                     r.rest)
         ELSE [ok |-> TRUE, val |-> Str(r.bytes), rest |-> r.rest,
               asked |-> <<AsUsize(n.val)>>, visit |-> "visit_str"]

\* deserialize_str (and deserialize_string) over a reader: the length, one
\* read_map of that many bytes, and in the callback UTF-8 validation and
\* visit_borrowed_str on Bytes::Persistent, visit_str on Bytes::Temporary.
\* `asked` lists the sizes asked of read_map.
deserialize_str_from(reader, src) ==
    LET n == read_compact(src) IN
    IF ~n.ok THEN n
    ELSE LET r == reader_read_map(reader, n.rest, AsUsize(n.val)) IN
         IF ~r.ok THEN Failed(IoEndOfInput, r.rest)
         ELSE IF ~from_utf8(r.bytes)
         THEN Failed([e |-> "InvalidUnicode", valid_up_to |-> valid_up_to(r.bytes)],
                     r.rest)
         ELSE [ok |-> TRUE, val |-> Str(r.bytes), rest |-> r.rest,
               asked |-> <<AsUsize(n.val)>>,
               visit |-> IF r.tag = "Persistent" THEN "visit_borrowed_str"
                         ELSE "visit_str"]

\* deserialize_str on the slice reader of from_slice.
deserialize_str(src) == deserialize_str_from("slice", src)

\* deserialize_bytes (and deserialize_byte_buf) over a reader:
\* visit_borrowed_bytes on Bytes::Persistent, visit_bytes on
\* Bytes::Temporary.
deserialize_bytes_from(reader, src) ==
    LET n == read_compact(src) IN
    IF ~n.ok THEN n
    ELSE LET r == reader_read_map(reader, n.rest, AsUsize(n.val)) IN
         IF ~r.ok THEN Failed(IoEndOfInput, r.rest)
         ELSE [ok |-> TRUE, val |-> Bytes(r.bytes), rest |-> r.rest,
               asked |-> <<AsUsize(n.val)>>,
               visit |-> IF r.tag = "Persistent" THEN "visit_borrowed_bytes"
                         ELSE "visit_bytes"]

\* deserialize_bytes on the slice reader of from_slice.
deserialize_bytes(src) == deserialize_bytes_from("slice", src)

\* Error::Other, from serde's de::Error::custom.
Other(msg) == [e |-> "Other", msg |-> msg]

RECURSIVE Deserialize(_, _)
RECURSIVE VisitSeqFixed(_, _, _, _)
RECURSIVE VisitSeqVec(_, _, _, _)
RECURSIVE VisitMap(_, _, _, _, _)

\* The proxy with deserialize_bool forwarded like every other method.
OptionalBoolDeserializer_forwarding(t, src, discriminant_is_1) ==
    IF ~discriminant_is_1
    THEN Failed([e |-> "InvalidOption", found_discriminant |-> 2], src)
    ELSE Deserialize(t, src)

\* T::deserialize(OptionalBoolDeserializer): deserialize_bool answers from
\* the discriminant; every other method is check_bad_discriminant and then
\* the same method of the inner Deserializer.
OptionalBoolDeserializer(t, src, discriminant_is_1) ==
    IF t.k = "bool" THEN Got(Bool(discriminant_is_1), src)
    ELSE IF ~discriminant_is_1
    THEN Failed([e |-> "InvalidOption", found_discriminant |-> 2], src)
    ELSE Deserialize(t, src)

\* deserialize_option taking every discriminant other than 0 and 1 for 2.
deserialize_option_lenient(t, src) ==
    LET d == read_u8(src) IN
    IF ~d.ok THEN d
    ELSE CASE d.val = 0 -> Got(None, d.rest)
           [] OTHER ->
                 LET x == OptionalBoolDeserializer(t, d.rest, d.val = 1) IN
                 IF x.ok THEN Got(Some(x.val), x.rest) ELSE x

deserialize_option(t, src) ==
    LET d == read_u8(src) IN
    IF ~d.ok THEN d
    ELSE CASE d.val = 0 -> Got(None, d.rest)
           [] d.val \in {1, 2} ->
                 LET x == OptionalBoolDeserializer(t, d.rest, d.val = 1) IN
                 IF x.ok THEN Got(Some(x.val), x.rest) ELSE x
           [] OTHER ->
                 Failed([e |-> "InvalidOption", found_discriminant |-> d.val], d.rest)

\* A Sequence that goes on to the next element when one fails to decode.
VisitSeqFixed_skipping(ts, src, remaining, acc) ==
    IF ts = <<>> THEN Got(acc, src)
    ELSE IF remaining = 0 THEN Failed(Other("invalid length"), src)
    ELSE LET x == Deserialize(Head(ts), src) IN
         IF ~x.ok THEN VisitSeqFixed(Tail(ts), x.rest, remaining - 1, acc)
         ELSE VisitSeqFixed(Tail(ts), x.rest, remaining - 1, Append(acc, x.val))

\* Sequence::next_element_seed driven by the visitor of a tuple, a tuple
\* struct, a struct or a variant with `ts` elements left to ask for: None
\* (an invalid-length error of the visitor) once `remaining` is 0.
VisitSeqFixed(ts, src, remaining, acc) ==
    IF ts = <<>> THEN Got(acc, src)
    ELSE IF remaining = 0 THEN Failed(Other("invalid length"), src)
    ELSE LET x == Deserialize(Head(ts), src) IN
         IF ~x.ok THEN x
         ELSE VisitSeqFixed(Tail(ts), x.rest, remaining - 1, Append(acc, x.val))

\* Sequence::next_element_seed driven by the visitor of a Vec: elements
\* until None.
VisitSeqVec(t, src, remaining, acc) ==
    IF remaining = 0 THEN Got(acc, src)
    ELSE LET x == Deserialize(t, src) IN
         IF ~x.ok THEN x
         ELSE VisitSeqVec(t, x.rest, remaining - 1, Append(acc, x.val))

\* Map::next_key_seed and next_value_seed driven by the visitor of a map:
\* a key and a value until next_key_seed returns None.
VisitMap(kt, vt, src, remaining, acc) ==
    IF remaining = 0 THEN Got(acc, src)
    ELSE LET key == Deserialize(kt, src) IN
         IF ~key.ok THEN key
         ELSE LET value == Deserialize(vt, key.rest) IN
              IF ~value.ok THEN value
              ELSE VisitMap(kt, vt, value.rest, remaining - 1,
                            Append(acc, <<key.val, value.val>>))

\* deserialize_tuple reading a length first, as deserialize_seq does.
deserialize_tuple_prefixed(ts, src, len) ==
    LET n == read_compact(src) IN
    IF ~n.ok THEN n ELSE VisitSeqFixed(ts, n.rest, AsUsize(n.val), <<>>)

\* deserialize_tuple, and deserialize_tuple_struct and deserialize_struct
\* through it: a Sequence of `len` elements.
deserialize_tuple(ts, src, len) == VisitSeqFixed(ts, src, len, <<>>)

deserialize_seq(t, src) ==
    LET len == read_compact(src) IN
    IF ~len.ok THEN len
    ELSE VisitSeqVec(t, len.rest, AsUsize(len.val), <<>>)

deserialize_map(kt, vt, src) ==
    LET len == read_compact(src) IN
    IF ~len.ok THEN len
    ELSE VisitMap(kt, vt, len.rest, AsUsize(len.val), <<>>)

\* VariantAccess::tuple_variant: deserialize_tuple(len, visitor).
tuple_variant(ts, src) == deserialize_tuple(ts, src, Len(ts))

\* VariantAccess::struct_variant: deserialize_seq(visitor), which reads a
\* compact length and hands the struct's visitor a Sequence of that many
\* elements.
struct_variant(ts, src) ==
    LET len == read_compact(src) IN
    IF ~len.ok THEN len
    ELSE VisitSeqFixed(ts, len.rest, AsUsize(len.val), <<>>)

\* deserialize_enum: variant_seed reads the index with
\* deserialize_identifier (one byte, which the enum's visitor refuses when
\* it names no variant), then the VariantAccess method of the variant's
\* shape.
deserialize_enum(name, variants, src) ==
    LET d == read_u8(src) IN
    IF ~d.ok THEN d
    ELSE IF d.val >= Len(variants) THEN Failed(Other("invalid value"), d.rest)
    ELSE
    LET v == variants[d.val + 1]
        payload ==
            CASE v.shape = "unit" -> Got(<<>>, d.rest)
              [] v.shape = "newtype" ->
                    LET x == Deserialize(v.items[1], d.rest) IN
                    IF x.ok THEN Got(<<x.val>>, x.rest) ELSE x
              [] v.shape = "tuple" -> tuple_variant(v.items, d.rest)
              [] v.shape = "struct" -> struct_variant(v.items, d.rest)
    IN  IF payload.ok
        THEN Got(Variant(name, v.variant, d.val, v.shape, payload.val), payload.rest)
        ELSE payload

\* T::deserialize(&mut deserializer): the method of the Deserializer that
\* the type's Deserialize impl calls, and what its visitor builds.
Deserialize(t, src) ==
    CASE t.k = "bool" -> deserialize_bool(src)
      [] t.k \in IntKinds -> deserialize_int(t.k, src)
      [] t.k \in {"f32", "f64"} -> deserialize_float(src)
      [] t.k = "char" -> deserialize_char(src)
      [] t.k = "str" -> deserialize_str(src)
      [] t.k = "bytes" -> deserialize_bytes(src)
      [] t.k = "option" -> deserialize_option(t.of, src)
      [] t.k = "unit" -> Got(Unit, src)
      [] t.k = "newtype_struct" ->
            LET x == Deserialize(t.of, src) IN
            IF x.ok THEN Got(NewtypeStruct(x.val), x.rest) ELSE x
      [] t.k = "seq" ->
            LET xs == deserialize_seq(t.of, src) IN
            IF xs.ok THEN Got(SeqOf(xs.val), xs.rest) ELSE xs
      [] t.k \in {"tuple", "tuple_struct", "struct"} ->
            LET xs == deserialize_tuple(t.items, src, Len(t.items)) IN
            IF xs.ok THEN Got([k |-> t.k, elems |-> xs.val], xs.rest) ELSE xs
      [] t.k = "map" ->
            LET es == deserialize_map(t.key, t.val, src) IN
            IF es.ok THEN Got(MapOf(es.val), es.rest) ELSE es
      [] t.k = "enum" -> deserialize_enum(t.name, t.variants, src)

\* from_slice refusing a slice it has not read to the end.
from_slice_exact(t, v) ==
    LET r == Deserialize(t, v) IN
    IF r.ok /\ r.rest # <<>> THEN Failed(Other("trailing bytes"), r.rest) ELSE r

\* from_slice: T::deserialize on a Deserializer over the slice.
from_slice(t, v) == Deserialize(t, v)

(***************************************************************************)
(* Inputs.                                                                 *)
(***************************************************************************)
\* 2^t - 1 as a u64, for t in 0..64.
Ones(t) == [i \in 0..(U64Bits - 1) |-> i < t]

\* The u64 values m * 2^s + (2^t - 1) with t = 0 or t = s: every power of
\* two, the value just below it, and their small multiples, so that both
\* sides of each regime boundary and every payload length occur.
U64Samples ==
    { BitOr(Shl(U64(m), s), Ones(t)) :
        <<m, s, t>> \in { q \in (0..MaxMant) \X (0..U64Bits) \X (0..U64Bits) :
                            q[3] = 0 \/ q[3] = q[2] } }

\* The bytes that pad a raw input.
FillBytes == {0, 1, 255}

\* Header bytes: every mode (the low two bits) with the high six bits small,
\* in the middle and at their largest.
RawHeaders == { h \in 0..255 : (h \div 4) \in (0..5) \cup {16, 62, 63} }

\* Raw inputs of read_compact: any header byte, then n payload bytes, all
\* `f` but the last, which is `l`.
RawCompactInputs ==
    { <<h>> \o [i \in 1..n |-> IF i = n THEN l ELSE f] :
        <<h, n, f, l>> \in RawHeaders \X (0..MaxPayload) \X FillBytes \X FillBytes }

\* Sampled integers of width w: 0, 1, 3, all bits set (-1, or the unsigned
\* maximum), the top bit alone (the signed minimum) and all but the top
\* bit (the signed maximum).
IntSamples(w) ==
    { FromNat(0, w), FromNat(1, w), FromNat(3, w),
      [i \in 0..(w - 1) |-> TRUE],
      [i \in 0..(w - 1) |-> i = w - 1],
      [i \in 0..(w - 1) |-> i # w - 1] }

\* 'a', U+00E9, U+20AC, the scalar values next to the surrogates, U+10FFFF.
CharSamples == {97, 233, 8364, 55295, 57344, 1114111}

\* "", "a", "foo", "+", U+00E9, U+20AC, U+1F600 and a string of 64 bytes,
\* whose length takes the two-byte compact form.
StrSamples ==
    { <<>>, <<97>>, <<102, 111, 111>>, <<43>>, <<195, 169>>, <<226, 130, 172>>,
      <<240, 159, 152, 128>>, [i \in 1..64 |-> 97] }

\* Byte buffers, among them bytes that are not UTF-8.
BytesSamples == { <<>>, <<0>>, <<255, 254>>, <<1, 2, 3>>, [i \in 1..64 |-> 128] }

RECURSIVE ValuesOf(_)
RECURSIVE Products(_)

\* The element tuples of a tuple, struct or variant with item types ts.
Products(ts) ==
    IF ts = <<>> THEN {<<>>}
    ELSE { <<x>> \o xs : x \in ValuesOf(Head(ts)), xs \in Products(Tail(ts)) }

\* Sequences of at most MaxLen elements of S.
SeqsUpTo(S) == UNION { [1..n -> S] : n \in 0..MaxLen }

\* The sampled values of type t.
ValuesOf(t) ==
    CASE t.k = "bool" -> {Bool(TRUE), Bool(FALSE)}
      [] t.k \in IntKinds -> { IntOf(t.k, b) : b \in IntSamples(Width(t.k)) }
      [] t.k \in {"f32", "f64"} ->
            { Float(t.k, b) : b \in IntSamples(IF t.k = "f32" THEN 32 ELSE 64) }
      [] t.k = "char" -> { Char(c) : c \in CharSamples }
      [] t.k = "str" -> { Str(b) : b \in StrSamples }
      [] t.k = "bytes" -> { Bytes(b) : b \in BytesSamples }
      [] t.k = "unit" -> {Unit}
      [] t.k = "option" -> {None} \cup { Some(x) : x \in ValuesOf(t.of) }
      [] t.k = "newtype_struct" -> { NewtypeStruct(x) : x \in ValuesOf(t.of) }
      [] t.k = "seq" -> { SeqOf(xs) : xs \in SeqsUpTo(ValuesOf(t.of)) }
      [] t.k \in {"tuple", "tuple_struct", "struct"} ->
            { [k |-> t.k, elems |-> xs] : xs \in Products(t.items) }
      [] t.k = "map" ->
            { MapOf(es) :
                es \in { s \in SeqsUpTo(ValuesOf(t.key) \X ValuesOf(t.val)) :
                           \A i, j \in DOMAIN s : i # j => s[i][1] # s[j][1] } }
      [] t.k = "enum" ->
            UNION { { Variant(t.name, t.variants[i].variant, i - 1,
                              t.variants[i].shape, xs) :
                        xs \in Products(t.variants[i].items) } :
                    i \in DOMAIN t.variants }

\* enum Result<i32, String>.
TResult ==
    TEnum("Result",
          << VariantShape("Ok", "newtype", <<TInt("i32")>>),
             VariantShape("Err", "newtype", <<TStr>>) >>)

\* An enum with a variant of each shape.
TShapes ==
    TEnum("Shapes",
          << VariantShape("Unit", "unit", <<>>),
             VariantShape("Newtype", "newtype", <<TInt("u8")>>),
             VariantShape("Tuple", "tuple", <<TInt("u8"), TBool>>),
             VariantShape("Struct", "struct", <<TInt("u8"), TBool>>),
             VariantShape("Nested", "struct", <<TBool, TOption(TBool)>>) >>)

\* The payload of the variant of index i of the large enum: the four
\* shapes in turn.
BigVariant(i) ==
    CASE i % 4 = 0 -> VariantShape("V" \o ToString(i), "unit", <<>>)
      [] i % 4 = 1 -> VariantShape("V" \o ToString(i), "newtype", <<TInt("u8")>>)
      [] i % 4 = 2 -> VariantShape("V" \o ToString(i), "tuple", <<TInt("u8"), TBool>>)
      [] i % 4 = 3 -> VariantShape("V" \o ToString(i), "struct", <<TInt("u8"), TBool>>)

\* An enum with more variants than a byte can index.
TBig == TEnum("Big", [i \in 1..NumVariants |-> BigVariant(i - 1)])

\* The types values are drawn from: every scalar, and every composite over
\* scalars, among them the shapes of the conformance tests (Option<bool>,
\* Option<i32>, Result<i32, String>, Vec, (i32, String), struct Operator).
Shapes ==
    << TBool,
       TInt("i8"), TInt("i16"), TInt("i32"), TInt("i64"),
       TInt("u8"), TInt("u16"), TInt("u32"), TInt("u64"),
       TChar, TStr, TBytes, TUnit,
       TOption(TBool), TOption(TInt("i32")), TOption(TOption(TBool)),
       TOption(TNewtypeStruct(TBool)), TOption(TUnit),
       TNewtypeStruct(TInt("u16")),
       TSeq(TInt("u8")), TSeq(TOption(TBool)),
       TTuple(<<TInt("i32"), TStr>>),
       [k |-> "tuple_struct", items |-> <<TBool, TInt("u8")>>],
       TStruct(<<TStr, TInt("u8")>>),
       TMap(TInt("u8"), TBool),
       TResult, TShapes, TBig,
       TFloat("f32"), TFloat("f64") >>

\* The bytes raw slices are made of: the option discriminants and one
\* past them, the compact lengths 0, 1 and 2, the four compact modes, a
\* UTF-8 lead byte and a byte that occurs in no UTF-8.
RawBytes == {0, 1, 2, 3, 4, 8, 195, 255}

\* Raw slices: every sequence of at most MaxRaw of those bytes.
RawSlices == UNION { [1..n -> RawBytes] : n \in 0..MaxRaw }

\* The types asked for on raw slices.
RawShapes ==
    << TBool, TInt("u8"), TInt("u16"), TStr, TBytes, TUnit,
       TOption(TBool), TOption(TInt("u8")), TOption(TInt("u16")),
       TOption(TOption(TBool)), TOption(TUnit), TOption(TNewtypeStruct(TBool)),
       TOption(TStr), TOption(TSeq(TInt("u8"))),
       TTuple(<<TInt("u8"), TBool>>),
       [k |-> "tuple_struct", items |-> <<TOption(TBool), TInt("u8")>>],
       TStruct(<<TBool, TInt("u16")>>),
       TSeq(TInt("u8")), TMap(TInt("u8"), TBool), TShapes >>

\* The len argument of serialize_seq and serialize_map: unknown, small,
\* 64 (a two-byte compact length) and 2^30 (a big-integer compact length).
LenHints == {NoLen} \cup { SomeLen(n) : n \in (0..MaxLen) \cup {64, 2^30} }

\* The items handed to serialize_element: values whose encodings differ in
\* length and in content.
CollectItems ==
    ValuesOf(TInt("u8")) \cup ValuesOf(TOption(TBool)) \cup {Str(<<97>>), Unit}

\* The pairs handed to serialize_entry.
CollectEntries == ValuesOf(TInt("u8")) \X ValuesOf(TBool)

\* The calls of collect_seq and of collect_map: a length hint and the items.
CollectSeqCalls == LenHints \X SeqsUpTo(CollectItems)
CollectMapCalls == LenHints \X SeqsUpTo(CollectEntries)

\* A byte that follows the encoding of a scalar in a slice.
Trailer == <<7>>

\* The bytes appended to a slice that decoded: one that reads as a length,
\* a discriminant or false, and two that read as neither.
Trailers == {<<0>>, <<255, 3>>}

\* The slices a fixed-width scalar is decoded from: the little-endian
\* bytes of each of the given values, one byte short, exact, and followed
\* by one more byte.
ScalarSlices(values) ==
    { SubSeq(ToLeBytes(v) \o Trailer, 1, n) :
        <<v, n>> \in { q \in values \X (0..(U64Bits \div ByteBits + 1)) :
                         /\ q[2] + 1 >= Cardinality(DOMAIN q[1]) \div ByteBits
                         /\ q[2] <= Cardinality(DOMAIN q[1]) \div ByteBits + 1 } }

\* The u32 values a char is decoded from: 'a', both sides of each end of
\* the surrogate range, both sides of 0x10FFFF, 2^31 and 2^32 - 1.
U32Samples ==
    { FromNat(n, U32Bits) : n \in {97, 55295, 55296, 57343, 57344, 1114111, 1114112} }
        \cup { [i \in 0..(U32Bits - 1) |-> i = U32Bits - 1],
               [i \in 0..(U32Bits - 1) |-> TRUE] }

\* The calls of from_slice for a char, for each integer type, for the floats
\* and for an Option<f32>.
ScalarCalls ==
    { <<TChar, b>> : b \in ScalarSlices(U32Samples) }
        \cup UNION { { <<TInt(k), b>> : b \in ScalarSlices(IntSamples(Width(k))) } :
                       k \in IntKinds }
        \cup { <<TFloat("f32"), b>> : b \in ScalarSlices(IntSamples(32)) \cup {<<>>} }
        \cup { <<TFloat("f64"), b>> : b \in ScalarSlices(IntSamples(64)) \cup {<<>>} }
        \cup { <<TOption(TFloat("f32")), <<1>> \o b>> : b \in ScalarSlices(IntSamples(32)) }

\* The calls of from_slice on raw slices.
FromSliceCalls ==
    { <<RawShapes[i], b>> : i \in DOMAIN RawShapes, b \in RawSlices }
        \cup ScalarCalls

\* The calls of deserialize_str and deserialize_bytes on either reader.
DeserializeFromCalls == Readers \X {TStr, TBytes} \X RawSlices

\* The n of read_map: within the slice, past its end, and far past it;
\* the calls of read_map.
ReadSizes == (0..(MaxRaw + 1)) \cup {HugeLen}
ReadMapCalls == RawSlices \X ReadSizes

(***************************************************************************)
(* The state machine.                                                      *)
(***************************************************************************)
NoArg == <<>>
NoRet == [ok |-> TRUE, val |-> <<>>]

Init ==
    /\ op = "idle"
    /\ arg = NoArg
    /\ ty = TUnit
    /\ sink = <<>>
    /\ input = <<>>
    /\ rest = <<>>
    /\ ret = NoRet

\* Serializer::new(Vec::new()).serialize_compact(v)
SerializeCompact(v) ==
    /\ op = "idle"
    /\ op' = "serialize_compact"
    /\ arg' = v
    /\ sink' = serialize_compact(<<>>, v)
    /\ ret' = Ok(<<>>)
    /\ UNCHANGED <<ty, input, rest>>

\* Deserializer::new(&written[..]).read_compact() on the bytes just written.
ReadCompactWritten ==
    /\ op = "serialize_compact"
    /\ op' = "compact_roundtrip"
    /\ input' = sink
    /\ LET r == read_compact(sink) IN
        /\ rest' = r.rest
        /\ ret' = IF r.ok THEN Ok(r.val) ELSE Err(r.err)
    /\ UNCHANGED <<arg, ty, sink>>

\* Deserializer::new(b).read_compact() on a raw input.
ReadCompact(b) ==
    /\ op = "idle"
    /\ op' = "read_compact"
    /\ input' = b
    /\ LET r == read_compact(b) IN
        /\ rest' = r.rest
        /\ ret' = IF r.ok THEN Ok(r.val) ELSE Err(r.err)
    /\ UNCHANGED <<arg, ty, sink>>

\* to_vec(&x) for a value x of type t.
ToVec(t, x) ==
    /\ op = "idle"
    /\ op' = "to_vec"
    /\ ty' = t
    /\ arg' = x
    /\ sink' = Serialize(x, <<>>).out
    /\ ret' = to_vec(x)
    /\ UNCHANGED <<input, rest>>

\* What a call of from_slice leaves: the slice advanced past what was
\* read, and the Result.
Returns(r) ==
    /\ rest' = r.rest
    /\ ret' = IF r.ok THEN Ok(r.val) ELSE Err(r.err)

\* from_slice::<T>(&bytes) on the bytes to_vec returned.
FromSliceWritten ==
    /\ op = "to_vec"
    /\ ret.ok
    /\ op' = "roundtrip"
    /\ input' = ret.val
    /\ Returns(from_slice(ty, ret.val))
    /\ UNCHANGED <<arg, ty, sink>>

\* from_slice::<T>(&bytes[..n]) on a strict prefix of the bytes to_vec
\* returned.
FromSliceTruncated(n) ==
    /\ op = "to_vec"
    /\ ret.ok
    /\ n < Len(ret.val)
    /\ op' = "truncated"
    /\ input' = SubSeq(ret.val, 1, n)
    /\ Returns(from_slice(ty, SubSeq(ret.val, 1, n)))
    /\ UNCHANGED <<arg, ty, sink>>

\* What a call on a Deserializer over a reader leaves: the reader advanced,
\* and the visitor's report (the method it was called through, the sizes
\* asked of read_map, the value) or the error.
Visited(r) ==
    /\ rest' = r.rest
    /\ ret' = IF r.ok
              THEN Ok([visit |-> r.visit, asked |-> r.asked, value |-> r.val])
              ELSE Err(r.err)

\* String::deserialize or ByteBuf::deserialize on Deserializer::new(r), r a
\* reader of the given kind over the bytes b; the visitor reports the
\* method it was called through.
DeserializeFrom(reader, t, b) ==
    /\ op = "idle"
    /\ op' = "deserialize_from"
    /\ arg' = reader
    /\ ty' = t
    /\ input' = b
    /\ Visited(IF t = TStr THEN deserialize_str_from(reader, b)
               ELSE deserialize_bytes_from(reader, b))
    /\ UNCHANGED sink

\* from_slice::<T>(b) on a raw slice.
FromSlice(t, b) ==
    /\ op = "idle"
    /\ op' = "from_slice"
    /\ ty' = t
    /\ input' = b
    /\ Returns(from_slice(t, b))
    /\ UNCHANGED <<arg, sink>>

\* from_slice::<T>(b ++ t) after from_slice::<T>(b) returned a value: the
\* same request on the same bytes followed by t.
FromSliceLonger(t) ==
    /\ op = "from_slice"
    /\ ret.ok
    /\ op' = "from_slice_longer"
    /\ arg' = [val |-> ret.val, rest |-> rest, trailer |-> t]
    /\ input' = input \o t
    /\ Returns(from_slice(ty, input \o t))
    /\ UNCHANGED <<ty, sink>>

\* (&mut &b[..]).read_map(n, f) with f returning the Bytes it is handed.
ReadMap(b, n) ==
    /\ op = "idle"
    /\ op' = "read_map"
    /\ input' = b
    /\ arg' = n
    /\ LET r == read_map(b, n) IN
        /\ rest' = r.rest
        /\ ret' = IF r.ok THEN Ok([tag |-> r.tag, bytes |-> r.bytes])
                  ELSE Err([e |-> "EndOfInput"])
    /\ UNCHANGED <<ty, sink>>

\* serializer.collect_seq(xs) on an iterator whose length hint is len.
CollectSeq(len, xs) ==
    /\ op = "idle"
    /\ op' = "collect_seq"
    /\ arg' = [len |-> len, elems |-> xs]
    /\ LET r == collect_seq(<<>>, len, xs) IN
        /\ sink' = r.out
        /\ ret' = IF r.ok THEN Ok(<<>>) ELSE Err(r.err)
    /\ UNCHANGED <<ty, input, rest>>

\* serializer.collect_map(es) on an iterator whose length hint is len.
CollectMap(len, es) ==
    /\ op = "idle"
    /\ op' = "collect_map"
    /\ arg' = [len |-> len, entries |-> es]
    /\ LET r == collect_map(<<>>, len, es) IN
        /\ sink' = r.out
        /\ ret' = IF r.ok THEN Ok(<<>>) ELSE Err(r.err)
    /\ UNCHANGED <<ty, input, rest>>

Next ==
    \/ op = "idle" /\ \E v \in U64Samples : SerializeCompact(v)
    \/ ReadCompactWritten
    \/ op = "idle" /\ \E b \in RawCompactInputs : ReadCompact(b)
    \/ op = "idle" /\ \E i \in DOMAIN Shapes : \E x \in ValuesOf(Shapes[i]) :
                          ToVec(Shapes[i], x)
    \/ FromSliceWritten
    \/ op = "to_vec" /\ \E n \in 0..(Len(sink) - 1) : FromSliceTruncated(n)
    \/ op = "idle" /\ \E c \in FromSliceCalls : FromSlice(c[1], c[2])
    \/ op = "from_slice" /\ \E t \in Trailers : FromSliceLonger(t)
    \/ op = "idle" /\ \E c \in ReadMapCalls : ReadMap(c[1], c[2])
    \/ op = "idle" /\ \E c \in DeserializeFromCalls : DeserializeFrom(c[1], c[2], c[3])
    \/ op = "idle" /\ \E c \in CollectSeqCalls : CollectSeq(c[1], c[2])
    \/ op = "idle" /\ \E c \in CollectMapCalls : CollectMap(c[1], c[2])

Spec == Init /\ [][Next]_vars

(***************************************************************************)
(* The compact integer codec: claims C3 to C7.                             *)
(***************************************************************************)
\* The bytes of `input` the operation consumed.
Consumed == SubSeq(input, 1, Len(input) - Len(rest))

\* The number of bytes needed to hold v: one more than the index of the
\* byte that holds its highest set bit (0 for v = 0).
ByteLen(v) ==
    IF v = U64(0) THEN 0
    ELSE (CHOOSE i \in DOMAIN v : v[i] /\ \A j \in DOMAIN v : j > i => ~v[j])
            \div ByteBits + 1

\* C3: serialize_compact(v) for v >= 2^30 writes the big-integer form: the
\* header ((n - 4) << 2) | 0b11 with n the minimal byte length of v, then
\* the n little-endian bytes of v, n + 1 bytes in all.
C3_BigIntegerForm ==
    (op = "serialize_compact" /\ ~Lt(arg, U64(2^30))) =>
        LET n == ByteLen(arg) IN
        /\ n \in 4..8
        /\ Len(sink) = n + 1
        /\ sink[1] = (n - 4) * 4 + 3
        /\ SubSeq(sink, 2, n + 1) = SubSeq(ToLeBytes(arg), 1, n)

\* C4: serialize_compact(v) for v < 2^30 writes v << 2 in one byte below
\* 2^6, (v << 2 | 1) & 0xFF and (v >> 6) & 0xFF below 2^14, and
\* (v << 2 | 2) & 0xFF followed by the low 24 bits of v >> 6 otherwise.
C4_SmallForms ==
    (op = "serialize_compact" /\ Lt(arg, U64(2^30))) =>
        LET n == ToNat(arg) IN
        /\ n < 2^6 => sink = <<n * 4>>
        /\ (2^6 <= n /\ n < 2^14) => sink = <<(n % 64) * 4 + 1, n \div 64>>
        /\ 2^14 <= n =>
              sink = << (n % 64) * 4 + 2, (n \div 2^6) % 256,
                        (n \div 2^14) % 256, (n \div 2^22) % 256 >>
        /\ n = 0 => sink = <<0>>
        /\ n = 63 => sink = <<252>>
        /\ n = 64 => sink = <<1, 1>>
        /\ n = 16383 => sink = <<253, 255>>

C4_Witness ==
    /\ op = "serialize_compact"
    /\ arg = Ones(30)
    /\ sink = <<254, 255, 255, 255>>

\* C5: read_compact on the bytes serialize_compact(v) wrote returns v and
\* consumes exactly those bytes.
C5_CompactRoundTrip ==
    op = "compact_roundtrip" => (ret = Ok(arg) /\ Consumed = sink)

\* The regime-selected form: the shortest mode that holds the value, and,
\* in big-integer mode, a non-zero most significant payload byte.
Canonical(bytes, v) ==
    CASE bytes[1] % 4 = 0 -> TRUE
      [] bytes[1] % 4 = 1 -> ~Lt(v, U64(2^6))
      [] bytes[1] % 4 = 2 -> ~Lt(v, U64(2^14))
      [] bytes[1] % 4 = 3 -> ~Lt(v, U64(2^30)) /\ bytes[Len(bytes)] # 0

\* C6 as stated: read_compact returns a value only for the canonical
\* encoding of that value.
C6_RejectsNonCanonical ==
    (op = "read_compact" /\ ret.ok) => Canonical(Consumed, ret.val)

\* The input ends before the bytes its header announces.
Truncated(bytes) ==
    \/ bytes = <<>>
    \/ bytes[1] % 4 = 1 /\ Len(bytes) < 2
    \/ bytes[1] % 4 = 2 /\ Len(bytes) < 4
    \/ bytes[1] % 4 = 3 /\ Len(bytes) < 1 + (bytes[1] \div 4) + 4

\* C6 as amended: read_compact makes no canonicality check.  It fails only
\* on a truncated input and on a big-integer header announcing more than 8
\* bytes; on every other input, canonical or not, it returns the value the
\* bytes denote: (header-and-payload as a little-endian number) >> 2 in
\* the first three modes, the payload as a little-endian number in the
\* fourth.
C6_AcceptsEveryForm ==
    op = "read_compact" =>
        LET mode == input[1] % 4
            toolong == mode = 3 /\ (input[1] \div 4) + 4 > 8
        IN
        /\ ret.ok <=> (~Truncated(input) /\ ~toolong)
        /\ (ret.ok /\ mode # 3) =>
              /\ Len(Consumed) = 2^mode
              /\ ZeroPadded(Consumed, 8) = ToLeBytes(BitOr(Shl(ret.val, 2), U64(mode)))
              /\ Lt(ret.val, U64(2^30))
        /\ (ret.ok /\ mode = 3) =>
              ZeroPadded(Tail(Consumed), 8) = ToLeBytes(ret.val)

\* The two-byte form of 0 is accepted.
C6_Witness ==
    /\ op = "read_compact"
    /\ input = <<1, 0>>
    /\ ret = Ok(U64(0))
    /\ rest = <<>>

\* C7: on a header with low bits 0b11, len = (head >> 2) + 4; len > 8
\* fails with CollectionTooLargeToDeserialize with only the header
\* consumed; len <= 8 reads exactly len bytes and returns their
\* little-endian value.
C7_BigIntegerRead ==
    (op = "read_compact" /\ input # <<>> /\ input[1] % 4 = 3) =>
        LET len == (input[1] \div 4) + 4 IN
        /\ len > 8 =>
              /\ ret = Err(CollectionTooLargeToDeserialize)
              /\ rest = Tail(input)
        /\ (len <= 8 /\ Len(input) >= 1 + len) =>
              /\ ret.ok
              /\ Len(Consumed) = 1 + len
              /\ ToLeBytes(ret.val) = ZeroPadded(SubSeq(input, 2, 1 + len), 8)

\* A header announcing 9 bytes, with the 9 bytes there to be read.
C7_Witness ==
    /\ op = "read_compact"
    /\ input[1] = 23
    /\ Len(input) = 10
    /\ ret = Err(CollectionTooLargeToDeserialize)
    /\ Len(rest) = 9

(***************************************************************************)
(* Whole values: claims C1, C2 and C8 to C10.                              *)
(***************************************************************************)
\* C1: from_slice applied to the bytes to_vec(v) returned gives back v.
C1_RoundTrip ==
    op = "roundtrip" => ret = Ok(arg)

\* The SCALE compact form of a length n < 2^30.
RefCompact(n) ==
    IF n < 2^6 THEN <<n * 4>>
    ELSE IF n < 2^14 THEN <<(n % 64) * 4 + 1, n \div 64>>
    ELSE << (n % 64) * 4 + 2, (n \div 2^6) % 256,
            (n \div 2^14) % 256, (n \div 2^22) % 256 >>

RECURSIVE RefEncode(_)
RECURSIVE RefConcat(_)
RECURSIVE RefEntries(_)

\* The encodings of the elements, one after the other.
RefConcat(xs) ==
    IF xs = <<>> THEN <<>> ELSE RefEncode(Head(xs)) \o RefConcat(Tail(xs))

\* Each entry's key, then its value.
RefEntries(es) ==
    IF es = <<>> THEN <<>>
    ELSE RefEncode(Head(es)[1]) \o RefEncode(Head(es)[2]) \o RefEntries(Tail(es))

\* The bytes the SCALE wire format defines for a value: little-endian
\* fixed-width integers, bool as 0 or 1, the code point of a char in four
\* bytes, compact lengths, options (Option<bool> in one byte), a one-byte
\* variant index and the payload, length-prefixed sequences and maps,
\* unframed tuples and structs.
RefEncode(x) ==
    CASE x.k = "bool" -> <<IF x.v THEN 1 ELSE 0>>
      [] x.k \in IntKinds -> ToLeBytes(x.v)
      [] x.k = "char" ->
            << x.v % 256, (x.v \div 2^8) % 256, (x.v \div 2^16) % 256, x.v \div 2^24 >>
      [] x.k \in {"str", "bytes"} -> RefCompact(Len(x.v)) \o x.v
      [] x.k = "none" -> <<0>>
      [] x.k = "some" ->
            IF x.v.k = "bool" THEN <<IF x.v.v THEN 1 ELSE 2>>
            ELSE <<1>> \o RefEncode(x.v)
      [] x.k = "unit" -> <<>>
      [] x.k = "newtype_struct" -> RefEncode(x.v)
      [] x.k = "seq" -> RefCompact(Len(x.elems)) \o RefConcat(x.elems)
      [] x.k \in {"tuple", "tuple_struct", "struct"} -> RefConcat(x.elems)
      [] x.k = "map" -> RefCompact(Len(x.entries)) \o RefEntries(x.entries)
      [] x.k = "variant" -> <<x.index>> \o RefConcat(x.elems)

\* C2: the bytes to_vec returns are the bytes the SCALE wire format
\* defines for the value (it defines none for a float).
C2_Conformance ==
    (op = "to_vec" /\ arg.k \notin {"f32", "f64"}) => ret = Ok(RefEncode(arg))

\* The bytes the serializer writes for each entry: the key's encoding and
\* then the value's.
RECURSIVE EntryEncodings(_)
EntryEncodings(es) ==
    IF es = <<>> THEN <<>>
    ELSE Serialize(Head(es)[1], <<>>).out \o Serialize(Head(es)[2], <<>>).out
            \o EntryEncodings(Tail(es))

\* C8: a map of L entries is written as the compact encoding of L, then
\* each entry's key and value in encounter order, and nothing else.
C8_MapEncoding ==
    (op = "to_vec" /\ arg.k = "map") =>
        sink = serialize_compact_bytes(U64(Len(arg.entries)))
                  \o EntryEncodings(arg.entries)

\* C9: decoding the encoding of a struct variant returns the same variant
\* with the same fields and consumes exactly the bytes written: one
\* discriminant byte and the fields, with no length prefix.
C9_StructVariantRoundTrip ==
    (op = "roundtrip" /\ arg.k = "variant" /\ arg.shape = "struct") =>
        (ret = Ok(arg) /\ rest = <<>>)

\* C10: None is the byte 0; Some(true) is the byte 1 and Some(false) the
\* byte 2, with no second byte; Some(x) for any other x is the byte 1 and
\* then the encoding of x.  The sink holds nothing else, so the boolean
\* probe wrote nothing.
C10_OptionEncoding ==
    op = "to_vec" =>
        /\ arg.k = "none" => sink = <<0>>
        /\ (arg.k = "some" /\ arg.v.k = "bool") =>
              sink = <<IF arg.v.v THEN 1 ELSE 2>>
        /\ (arg.k = "some" /\ arg.v.k # "bool") =>
              sink = <<1>> \o Serialize(arg.v, <<>>).out
        /\ arg = Some(IntOf("i32", FromNat(3, U32Bits))) => sink = <<1, 3, 0, 0, 0>>

C10_Witness ==
    /\ op = "to_vec"
    /\ arg = Some(Bool(FALSE))
    /\ sink = <<2>>
    /\ ret = Ok(<<2>>)

(***************************************************************************)
(* Decoding options: claims C11 and C12.                                   *)
(***************************************************************************)
\* Error::InvalidOption { found_discriminant }.
InvalidOption(found_discriminant) ==
    [e |-> "InvalidOption", found_discriminant |-> found_discriminant]

\* C11: decoding Option<bool> consumes exactly one byte: 0 yields None, 1
\* yields Some(true), 2 yields Some(false).  For discriminant 1 and any
\* other payload type, the payload is what the ordinary decoder makes of
\* the bytes after the discriminant.
C11_OptionDecoding ==
    (op = "from_slice" /\ ty.k = "option" /\ input # <<>>) =>
        /\ (ty.of.k = "bool" /\ input[1] \in {0, 1, 2}) =>
              /\ rest = Tail(input)
              /\ input[1] = 0 => ret = Ok(None)
              /\ input[1] = 1 => ret = Ok(Some(Bool(TRUE)))
              /\ input[1] = 2 => ret = Ok(Some(Bool(FALSE)))
        /\ (ty.of.k # "bool" /\ input[1] = 1) =>
              LET x == Deserialize(ty.of, Tail(input)) IN
              /\ rest = x.rest
              /\ ret = IF x.ok THEN Ok(Some(x.val)) ELSE Err(x.err)
        /\ (ty = TOption(TInt("u8")) /\ input = <<1, 255>>) =>
              ret = Ok(Some(IntOf("u8", FromNat(255, ByteBits)))) /\ rest = <<>>

\* Some(false) from the byte 2, with the byte after it left unread.
C11_Witness ==
    /\ op = "from_slice"
    /\ ty = TOption(TBool)
    /\ input = <<2, 1>>
    /\ ret = Ok(Some(Bool(FALSE)))
    /\ rest = <<1>>

\* C12: a discriminant d other than 0, 1 and 2 fails with
\* InvalidOption{d}; the discriminant 2 with a payload type other than
\* bool fails with InvalidOption{2}; either way the slice is left right
\* after the discriminant.
C12_InvalidOption ==
    (op = "from_slice" /\ ty.k = "option" /\ input # <<>>) =>
        /\ input[1] \notin {0, 1, 2} =>
              ret = Err(InvalidOption(input[1])) /\ rest = Tail(input)
        /\ (input[1] = 2 /\ ty.of.k # "bool") =>
              ret = Err(InvalidOption(2)) /\ rest = Tail(input)
        /\ (ty = TOption(TOption(TBool)) /\ input = <<1, 3, 0>>) =>
              ret = Err(InvalidOption(3)) /\ rest = <<0>>

\* The byte 3 where Option<bool> is asked for.
C12_Witness ==
    /\ op = "from_slice"
    /\ ty = TOption(TBool)
    /\ input = <<3, 1>>
    /\ ret = Err(InvalidOption(3))
    /\ rest = <<1>>

(***************************************************************************)
(* Encoding enums: claims C13 to C15.                                      *)
(***************************************************************************)
\* Error::TooManyVariants { enum_name, variant_name, variant_index }.
TooManyVariants(enum_name, variant_name, variant_index) ==
    [e |-> "TooManyVariants", enum_name |-> enum_name,
     variant_name |-> variant_name, variant_index |-> variant_index]

\* C13: serializing a variant of any shape whose index is 256 or more fails
\* with TooManyVariants naming the enum, the variant and the index, and
\* the sink stays empty.
C13_TooManyVariants ==
    (op = "to_vec" /\ arg.k = "variant" /\ arg.index >= 256) =>
        /\ ret = Err(TooManyVariants(arg.name, arg.variant, arg.index))
        /\ sink = <<>>

\* A struct variant of index 259.
C13_Witness ==
    /\ op = "to_vec"
    /\ arg.k = "variant" /\ arg.shape = "struct" /\ arg.index = 259
    /\ ret = Err(TooManyVariants("Big", "V259", 259))
    /\ sink = <<>>

\* C14: serializing the variant of index 255, the 256th, fails with
\* TooManyVariants and writes no discriminant byte.
C14_Limit255 ==
    (op = "to_vec" /\ arg.k = "variant" /\ arg.index = 255) =>
        /\ ~ret.ok
        /\ ret.err.e = "TooManyVariants"
        /\ sink = <<>>

RefCompactLen(n) ==
    IF n < 2^30 THEN RefCompact(n)
    ELSE <<3, n % 256, (n \div 2^8) % 256, (n \div 2^16) % 256, n \div 2^24>>

\* C16: serialize_seq(Some(L)) writes the compact encoding of L and then
\* each element's encoding in the order given, and nothing else;
\* serialize_seq(None) and serialize_map(None) fail with LengthNeeded and
\* write nothing.
C16_SeqEncoding ==
    /\ (op = "collect_seq" /\ arg.len = NoLen) =>
          ret = Err([e |-> "LengthNeeded"]) /\ sink = <<>>
    /\ (op = "collect_map" /\ arg.len = NoLen) =>
          ret = Err([e |-> "LengthNeeded"]) /\ sink = <<>>
    /\ (op = "collect_seq" /\ arg.len # NoLen) =>
          /\ ret.ok
          /\ sink = RefCompactLen(arg.len[1]) \o RefConcat(arg.elems)

\* The elements of types ts decoded one after the other by the ordinary
\* decoder, up to the first that fails.
RECURSIVE ElementsInTurn(_, _, _)
ElementsInTurn(ts, src, acc) ==
    IF ts = <<>> THEN Got(acc, src)
    ELSE LET x == Deserialize(Head(ts), src) IN
         IF ~x.ok THEN x ELSE ElementsInTurn(Tail(ts), x.rest, Append(acc, x.val))

\* C17: a tuple, tuple struct or struct is written as its elements'
\* encodings one after the other and nothing else; decoding one of arity N
\* decodes its N elements in order and consumes their bytes only.
C17_FixedArity ==
    /\ (op = "to_vec" /\ arg.k \in {"tuple", "tuple_struct", "struct"}) =>
          /\ ret = Ok(sink)
          /\ sink = RefConcat(arg.elems)
          /\ arg = TupleOf(<<IntOf("i32", FromNat(3, U32Bits)), Str(<<102, 111, 111>>)>>)
                => sink = <<3, 0, 0, 0, 12, 102, 111, 111>>
    /\ (op = "from_slice" /\ ty.k \in {"tuple", "tuple_struct", "struct"}) =>
          LET xs == ElementsInTurn(ty.items, input, <<>>) IN
          /\ rest = xs.rest
          /\ ret = IF xs.ok THEN Ok([k |-> ty.k, elems |-> xs.val]) ELSE Err(xs.err)
          /\ ret.ok =>
                /\ Len(ret.val.elems) = Len(ty.items)
                /\ Consumed = RefConcat(ret.val.elems)
    /\ (op = "roundtrip" /\ arg.k \in {"tuple", "tuple_struct", "struct"}) =>
          ret = Ok(arg) /\ rest = <<>>

\* (255u8, true) decoded from three bytes, the third left unread.
C17_Witness ==
    /\ op = "from_slice"
    /\ ty = TTuple(<<TInt("u8"), TBool>>)
    /\ input = <<255, 1, 0>>
    /\ ret = Ok(TupleOf(<<IntOf("u8", FromNat(255, ByteBits)), Bool(TRUE)>>))
    /\ rest = <<0>>

InvalidUnicode(valid) == [e |-> "InvalidUnicode", valid_up_to |-> valid]

\* C19: decoding a string whose length prefix declares n bytes that are
\* there and are not UTF-8 fails with InvalidUnicode carrying the
\* validation error, the slice advanced past the prefix and the n bytes.
C19_InvalidUnicode ==
    (op = "from_slice" /\ ty = TStr) =>
        LET n == read_compact(input)
            len == AsUsize(n.val)
            declared == SubSeq(n.rest, 1, len)
        IN
        /\ (n.ok /\ len <= Len(n.rest) /\ ~from_utf8(declared)) =>
              /\ ~ret.ok
              /\ ret.err.e = "InvalidUnicode"
              /\ ret.err.valid_up_to < len
              /\ from_utf8(SubSeq(declared, 1, ret.err.valid_up_to))
              /\ Len(Consumed) = (Len(input) - Len(n.rest)) + len
        /\ input = <<4, 255>> => ret = Err(InvalidUnicode(0)) /\ rest = <<>>
        /\ input = <<4, 195, 0>> => ret = Err(InvalidUnicode(0)) /\ rest = <<0>>
        /\ input = <<8, 1, 255>> => ret = Err(InvalidUnicode(1)) /\ rest = <<>>

\* One declared byte, a lead byte without its continuation, and a byte
\* after it that is left unread.
C19_Witness ==
    /\ op = "from_slice"
    /\ ty = TStr
    /\ input = <<4, 195, 0>>
    /\ ret = Err(InvalidUnicode(0))
    /\ rest = <<0>>

\* C20: read_map(n) on a slice with fewer than n bytes left fails with
\* EndOfInput and leaves the slice as it was; otherwise it hands the
\* callback the next n bytes as Bytes::Persistent and advances the slice
\* by n.  What is left of a slice after any operation is a suffix of it.
C20_SliceSource ==
    /\ (op = "read_map" /\ arg > Len(input)) =>
          ret = Err([e |-> "EndOfInput"]) /\ rest = input
    /\ (op = "read_map" /\ arg <= Len(input)) =>
          /\ ret = Ok([tag |-> "Persistent", bytes |-> SubSeq(input, 1, arg)])
          /\ input = ret.val.bytes \o rest
          /\ Len(rest) = Len(input) - arg
    /\ Len(rest) <= Len(input)
    /\ rest = SubSeq(input, Len(input) - Len(rest) + 1, Len(input))

\* Two of three bytes read.
C20_Witness ==
    /\ op = "read_map"
    /\ input = <<1, 2, 3>>
    /\ arg = 2
    /\ ret = Ok([tag |-> "Persistent", bytes |-> <<1, 2>>])
    /\ rest = <<3>>

(***************************************************************************)
(* Truncated input: claim C21.                                             *)
(***************************************************************************)
\* C21: from_slice on a strict prefix of the bytes to_vec(v) returned, with
\* v's type, returns the end-of-input error of the source wrapped as Io,
\* and never a value.
C21_Truncated ==
    op = "truncated" => ret = Err(IoEndOfInput)

(***************************************************************************)
(* Zero-copy decoding: claim C22.                                          *)
(***************************************************************************)
\* C22: a string or byte buffer is decoded with one read of exactly the
\* declared number of bytes; on a reader that hands out Persistent borrows
\* the visitor gets a borrow of the input (visit_borrowed_str,
\* visit_borrowed_bytes), and the copying methods (visit_str, visit_bytes)
\* are used only on a reader that hands out Temporary borrows.
C22_ZeroCopy ==
    (op = "deserialize_from" /\ ret.ok) =>
        /\ LET declared == read_compact(input) IN
              /\ ret.val.asked = <<AsUsize(declared.val)>>
              /\ declared.rest = ret.val.value.v \o rest
        /\ ret.val.asked = <<Len(ret.val.value.v)>>
        /\ arg = "slice" =>
              ret.val.visit = IF ty = TStr THEN "visit_borrowed_str"
                              ELSE "visit_borrowed_bytes"
        /\ arg = "temporary" =>
              ret.val.visit = IF ty = TStr THEN "visit_str" ELSE "visit_bytes"

\* A two-byte string borrowed from the slice.
C22_Witness ==
    /\ op = "deserialize_from"
    /\ arg = "slice"
    /\ ty = TStr
    /\ input = <<8, 1, 2>>
    /\ ret = Ok([visit |-> "visit_borrowed_str", asked |-> <<2>>, value |-> Str(<<1, 2>>)])

(***************************************************************************)
(* Scalars: claims C23 to C26.                                             *)
(***************************************************************************)
\* Error::ExpectedBoolean { found }.
ExpectedBoolean(found) == [e |-> "ExpectedBoolean", found |-> found]

\* C23: a boolean is written as one byte, 0 for false and 1 for true;
\* decoding one consumes exactly one byte and fails with
\* ExpectedBoolean{found = b} for every byte b other than 0 and 1.
C23_Bool ==
    /\ (op = "to_vec" /\ arg.k = "bool") =>
          ret = Ok(sink) /\ sink = <<IF arg.v THEN 1 ELSE 0>>
    /\ (op = "from_slice" /\ ty = TBool /\ input # <<>>) =>
          /\ rest = Tail(input)
          /\ input[1] = 0 => ret = Ok(Bool(FALSE))
          /\ input[1] = 1 => ret = Ok(Bool(TRUE))
          /\ input[1] \notin {0, 1} => ret = Err(ExpectedBoolean(input[1]))

\* The byte 255 where a boolean is asked for.
C23_Witness ==
    /\ op = "from_slice"
    /\ ty = TBool
    /\ input = <<255, 0>>
    /\ ret = Err(ExpectedBoolean(255))
    /\ rest = <<0>>

\* The bits of the first w/8 bytes of a slice, bit i of the value being
\* bit i mod 8 of byte i div 8.
BitsOf(bytes, w) ==
    [i \in 0..(w - 1) |-> (bytes[(i \div 8) + 1] \div 2^(i % 8)) % 2 = 1]

\* Byte k (from 0) of a bit vector: its bits 8k .. 8k+7.
ByteOf(bits, k) ==
    LET bit(j) == IF bits[8 * k + j] THEN 2^j ELSE 0 IN
    bit(0) + bit(1) + bit(2) + bit(3) + bit(4) + bit(5) + bit(6) + bit(7)

\* C24: a char is written as its code point in four little-endian bytes;
\* decoding one consumes exactly four bytes and fails with
\* InvalidCharacter{found = the u32 read} when that is a surrogate or
\* above 0x10FFFF.
C24_Char ==
    /\ (op = "to_vec" /\ arg.k = "char") =>
          /\ ret = Ok(sink)
          /\ sink = << arg.v % 256, (arg.v \div 2^8) % 256,
                       (arg.v \div 2^16) % 256, arg.v \div 2^24 >>
    /\ (op = "from_slice" /\ ty = TChar /\ Len(input) >= 4) =>
          LET code == input[1] + 2^8 * input[2] + 2^16 * input[3]
              scalar == /\ input[4] = 0
                        /\ code <= 1114111
                        /\ ~(55296 <= code /\ code <= 57343)
          IN
          /\ rest = SubSeq(input, 5, Len(input))
          /\ scalar => ret = Ok(Char(code))
          /\ ~scalar =>
                ret = Err([e |-> "InvalidCharacter", found |-> BitsOf(input, 32)])

\* The surrogate U+D800, and a byte after it that is left unread.
C24_Witness ==
    /\ op = "from_slice"
    /\ ty = TChar
    /\ input = <<0, 216, 0, 0, 7>>
    /\ ~ret.ok
    /\ ret.err.e = "InvalidCharacter"
    /\ rest = <<7>>

\* C25: an integer of width w is written as exactly w/8 bytes, byte k
\* holding bits 8k .. 8k+7 of its two's-complement representation;
\* decoding reads exactly w/8 bytes and returns the integer with those
\* bits.
C25_FixedInts ==
    /\ (op = "to_vec" /\ arg.k \in IntKinds) =>
          /\ ret = Ok(sink)
          /\ Len(sink) = Width(arg.k) \div 8
          /\ \A k \in 1..Len(sink) : sink[k] = ByteOf(arg.v, k - 1)
          /\ arg = IntOf("i8", [i \in 0..7 |-> i = 7]) => sink = <<128>>
          /\ arg = IntOf("i16", [i \in 0..15 |-> TRUE]) => sink = <<255, 255>>
          /\ arg = IntOf("u32", FromNat(1, 32)) => sink = <<1, 0, 0, 0>>
          /\ arg = IntOf("i64", [i \in 0..63 |-> i # 63])
                => sink = <<255, 255, 255, 255, 255, 255, 255, 127>>
    /\ (op = "from_slice" /\ ty.k \in IntKinds) =>
          LET n == Width(ty.k) \div 8 IN
          /\ Len(input) < n => ret = Err(IoEndOfInput) /\ rest = input
          /\ Len(input) >= n =>
                /\ ret = Ok(IntOf(ty.k, BitsOf(input, Width(ty.k))))
                /\ rest = SubSeq(input, n + 1, Len(input))
    /\ (op = "roundtrip" /\ arg.k \in IntKinds) => ret = Ok(arg) /\ rest = <<>>

\* i64::MIN decoded from its eight bytes, a ninth left unread.
C25_Witness ==
    /\ op = "from_slice"
    /\ ty = TInt("i64")
    /\ input = <<0, 0, 0, 0, 0, 0, 0, 128, 7>>
    /\ ret = Ok(IntOf("i64", [i \in 0..63 |-> i = 63]))
    /\ rest = <<7>>

\* Error::FloatingPointUnsupported.
FloatingPointUnsupported == [e |-> "FloatingPointUnsupported"]

\* C26: serializing an f32 or f64 fails with FloatingPointUnsupported and
\* writes no byte; a request to decode one fails with
\* FloatingPointUnsupported and consumes no byte.
C26_Floats ==
    /\ (op = "to_vec" /\ arg.k \in {"f32", "f64"}) =>
          ret = Err(FloatingPointUnsupported) /\ sink = <<>>
    /\ (op = "from_slice" /\ ty.k \in {"f32", "f64"}) =>
          ret = Err(FloatingPointUnsupported) /\ rest = input
    /\ (op = "from_slice" /\ ty = TOption(TFloat("f32")) /\ input[1] = 1) =>
          ret = Err(FloatingPointUnsupported) /\ rest = Tail(input)

\* An f64 asked for on nine bytes, all left unread.
C26_Witness ==
    /\ op = "from_slice"
    /\ ty = TFloat("f64")
    /\ Len(input) = 9
    /\ ret = Err(FloatingPointUnsupported)
    /\ rest = input

(***************************************************************************)
(* Errors and trailing bytes: claims C27 and C28.                          *)
(***************************************************************************)
NoFailure == [failed |-> FALSE]
FailureOf(r) == [failed |-> TRUE, err |-> r.err, rest |-> r.rest]

\* The first decode that returns an error when the types `per` are decoded
\* in turn from `src`, `rounds` times over: its error and where it left the
\* cursor.  i is the place in the current round.
RECURSIVE FirstFailure(_, _, _, _)
FirstFailure(per, i, rounds, src) ==
    IF rounds = 0 \/ per = <<>> THEN NoFailure
    ELSE IF i > Len(per) THEN FirstFailure(per, 1, rounds - 1, src)
    ELSE LET x == from_slice(per[i], src) IN
         IF ~x.ok THEN FailureOf(x) ELSE FirstFailure(per, i + 1, rounds, x.rest)

\* The primitive and nested decodes a decode of type t makes, in order,
\* and the first of them that fails.
NestedFailure(t, src) ==
    CASE t.k \in {"tuple", "tuple_struct", "struct"} -> FirstFailure(t.items, 1, 1, src)
      [] t.k = "newtype_struct" -> FirstFailure(<<t.of>>, 1, 1, src)
      [] t.k = "seq" ->
            LET n == read_compact(src) IN
            IF ~n.ok THEN FailureOf(n)
            ELSE FirstFailure(<<t.of>>, 1, AsUsize(n.val), n.rest)
      [] t.k = "map" ->
            LET n == read_compact(src) IN
            IF ~n.ok THEN FailureOf(n)
            ELSE FirstFailure(<<t.key, t.val>>, 1, AsUsize(n.val), n.rest)
      [] t.k = "option" ->
            LET d == read_u8(src) IN
            IF ~d.ok THEN FailureOf(d)
            ELSE IF d.val = 1 /\ t.of.k # "bool" THEN FirstFailure(<<t.of>>, 1, 1, d.rest)
            ELSE NoFailure
      [] t.k = "enum" ->
            LET d == read_u8(src) IN
            IF ~d.ok THEN FailureOf(d)
            ELSE IF d.val >= Len(t.variants) THEN NoFailure
            ELSE LET v == t.variants[d.val + 1] IN
                 IF v.shape # "struct" THEN FirstFailure(v.items, 1, 1, d.rest)
                 ELSE LET n == read_compact(d.rest) IN
                      IF ~n.ok THEN FailureOf(n)
                      ELSE FirstFailure(
                               SubSeq(v.items, 1, IF AsUsize(n.val) < Len(v.items)
                                                  THEN AsUsize(n.val) ELSE Len(v.items)),
                               1, 1, n.rest)
      [] OTHER -> NoFailure

\* C27: once a primitive or nested decode made during a decode call
\* returns an error (an element of a sequence, tuple or map and an enum
\* payload included), the call returns that same error and reads nothing
\* more: the cursor is where the failing step left it.
C27_NoRecovery ==
    op = "from_slice" =>
        /\ LET f == NestedFailure(ty, input) IN
           f.failed => ret = Err(f.err) /\ rest = f.rest
        /\ (~ret.ok /\ ret.err.e = "ExpectedBoolean") =>
              Consumed # <<>> /\ Consumed[Len(Consumed)] = ret.err.found
        /\ (~ret.ok /\ ret.err.e = "InvalidOption") =>
              Consumed # <<>> /\ Consumed[Len(Consumed)] = ret.err.found_discriminant
        /\ (ty = TStruct(<<TBool, TInt("u16")>>) /\ input = <<2, 0, 0>>) =>
              ret = Err(ExpectedBoolean(2)) /\ rest = <<0, 0>>
        /\ (ty = TMap(TInt("u8"), TBool) /\ input = <<8, 0, 3>>) =>
              ret = Err(ExpectedBoolean(3)) /\ rest = <<>>

\* The first element of a tuple struct fails on the discriminant 3 and the
\* byte of the second element is left unread.
C27_Witness ==
    /\ op = "from_slice"
    /\ ty = [k |-> "tuple_struct", items |-> <<TOption(TBool), TInt("u8")>>]
    /\ input = <<3, 1>>
    /\ ret = Err(InvalidOption(3))
    /\ rest = <<1>>

\* C28: trailing bytes do not affect decoding: when from_slice returns a
\* value x on a buffer b, it returns the same x on b followed by any bytes
\* t, and leaves t unread after what it left of b.
C28_TrailingBytes ==
    op = "from_slice_longer" =>
        /\ ret = Ok(arg.val)
        /\ rest = arg.rest \o arg.trailer

\* A Vec<u8> of one element decoded again with two more bytes behind it.
C28_Witness ==
    /\ op = "from_slice_longer"
    /\ ty = TSeq(TInt("u8"))
    /\ input = <<4, 3, 255, 3>>
    /\ arg.rest = <<>>
    /\ ret = Ok(SeqOf(<<IntOf("u8", FromNat(3, ByteBits))>>))
    /\ rest = <<255, 3>>

====
